---- MODULE Spec2Model ----
(***************************************************************************)
(* Model of the hybrid heap allocator (static heap array + sbrk growth +   *)
(* mmap for large requests).  Memory is modelled at word level: `mem' maps *)
(* the word-aligned addresses the allocator has written to the word stored *)
(* there.  Words never written read as 0 inside the static array and the   *)
(* sbrk area (BSS / fresh pages) and as `gapWord' inside foreign memory    *)
(* between the end of the static array and the initial program break; a    *)
(* gapWord of HeadWord stands for pages that hold it in their first word.  *)
(***************************************************************************)
EXTENDS Integers, Sequences, FiniteSets, TLC

\* ------------------------------------------------------------------------
\* Program constants
\* ------------------------------------------------------------------------
HEAP_TOTAL_SIZE == 4096
NUM_LISTS == 6
MMAP_THRESHOLD == 131072
MMAP_FLAG == 2
\* sizeof(word_t), sizeof(size_t), sizeof(Footer), offsetof(Block, payload)
WORD == 8
\* sizeof(Block): header + the two link pointers of the union
SIZEOF_BLOCK == 24
\* the page size get_page_size() reports
PAGE_SIZE == 4096

\* ------------------------------------------------------------------------
\* Bounds of the model
\* ------------------------------------------------------------------------
\* width of size_t in the model: all size arithmetic is taken modulo 2^SizeBits
SizeBits == 24
\* number of my_malloc / my_free calls in one behaviour
MaxOps == 6
\* number of calls in one behaviour of the stress host
MaxStress == 9
\* number of calls in one behaviour of the host that grows the heap twice
MaxGrow == 9
\* number of calls in one behaviour of the host that asks for large blocks
MaxPage == 5
\* number of calls in one behaviour of the host that fills the registry
MaxReg == 7
\* number of address slots of the kernel under the host that fills the registry
MaxTracked == 3
\* number of address slots the kernel may hand out for anonymous mappings
MaxMaps == 2
\* number of links a list walk may follow before it is declared endless
MaxScan == 12
\* number of past calls the ghost history keeps
MaxHist == 3
\* largest number of blocks in a batch of equal requests
MaxBatch == 3

SizeMod == 2 ^ SizeBits
SizeMax == SizeMod - 1

\* address of heap[0]; any word-aligned address would do
HeapBase == 65536
\* first address the kernel uses for anonymous mappings; slot i is at
\* MmapBase + i * MmapStride
MmapBase == 1048576
MmapStride == 262144

\* request sizes the host program uses
SmallSizes == {8, 100, 4000}
LargeSizes == {MMAP_THRESHOLD}
ReqSizes == SmallSizes \cup LargeSizes
\* requests within a few words of the largest size_t
WrapSizes == {SizeMax, SizeMax - 8}
\* request sizes of a host that also asks for nothing
NullSizes == {0, 100, 4000} \cup LargeSizes
\* request sizes of the stress host: the small size of test_stress_small, and
\* a size that exhausts the static heap in one call instead of thirty-six
StressSizes == {100, 4000}
\* request sizes of the host that grows the heap twice: a size that fills a
\* region, a size that uses up its slack, and a large size
GrowSizes == {8, 4000} \cup LargeSizes
\* request sizes of the host that asks for large blocks whose length is near
\* a page boundary: 24, 18 and 8 bytes below 33 pages, next to the threshold
\* itself and a small size
PageSizes == {100, MMAP_THRESHOLD, 135144, 135150, 135160}
\* request sizes of a batch of equal small requests
BatchSizes == {8, 100, 4000, 65536}
\* distance between the end of the static array and the initial program break
GapSizes == {0, PAGE_SIZE}
\* bytes by which one call of libc's malloc may move the program break
LibcGrows == {0, PAGE_SIZE}
\* the word at the start of a foreign page whose other words are zero
HeadWord == 36
\* contents of the foreign words between the static array and the break:
\* one word repeated, or HeadWord at the start of each page and zeros after it
GapWords == {0, 1, 32, 33, HeadWord}

VARIABLES
    mem,             \* word address -> word, the words written so far
    segregatedLists, \* 0..NUM_LISTS-1 -> head of the free list (0 = NULL)
    heap_top,        \* first byte not yet carved into blocks
    heap_end,        \* first byte beyond the owned region
    brk,             \* the kernel's program break
    brk0,            \* the program break when the process started
    libc,            \* start addresses of the pages libc's malloc took with sbrk
    maps,            \* base address -> length of the live anonymous mappings
    tracked,         \* the large blocks of the registry, in the order of the list
    nodes,           \* node address -> MmapTrackNode, the nodes libc's malloc holds
    mmap_tracked_head, \* first node of the registry (0 = NULL)
    mmap_tracked_tail, \* last node of the registry (0 = NULL)
    nslots,          \* number of address slots the kernel has for mappings
    gapWord,         \* what an unwritten foreign word reads as
    gap_start,       \* ghost: start of the unowned interior range (0 = none)
    gap_end,         \* ghost: end of the unowned interior range (0 = none)
    static_top,      \* ghost: end of the blocks of the abandoned static region
    blocks,          \* ghost: start addresses of the small blocks set up and not merged away
    live,            \* ghost: the pointers the host holds, with their requests
    rd,              \* ghost: addresses the last call read
    wr,              \* ghost: addresses the last call wrote
    calls,           \* ghost: the last calls (at most MaxHist) and their results
    status,          \* "running", or how the process ended: "segv", "hang"
    nops,            \* number of calls made
    batch            \* ghost: the batch of equal requests the host is running

vars == <<mem, segregatedLists, heap_top, heap_end, brk, brk0, libc, maps, tracked, nodes,
          mmap_tracked_head, mmap_tracked_tail, nslots, gapWord,
          gap_start, gap_end, static_top, blocks, live, rd, wr, calls, status, nops,
          batch>>

heap_start == HeapBase

\* ------------------------------------------------------------------------
\* Machine state threaded through one call
\* ------------------------------------------------------------------------
Cur ==
    [mem |-> mem, lists |-> segregatedLists, heap_top |-> heap_top,
     heap_end |-> heap_end, brk |-> brk, maps |-> maps, tracked |-> tracked,
     nodes |-> nodes, head |-> mmap_tracked_head, tail |-> mmap_tracked_tail,
     gap_start |-> gap_start, gap_end |-> gap_end, static_top |-> static_top,
     blocks |-> blocks, libc |-> libc,
     rd |-> {}, wr |-> {}, fault |-> FALSE, hang |-> FALSE,
     ret |-> 0, path |-> "none", sys |-> "none", freed |-> 0, merged |-> {},
     split |-> 0, rescued |-> 0, unmapped |-> <<>>, new_size |-> 0,
     kernel |-> "none", stray |-> {}, hdr |-> {}]

\* foreign memory: between the end of the static array and the initial
\* break, and the pages libc's malloc has taken since
Foreign(a) ==
    \/ HeapBase + HEAP_TOTAL_SIZE <= a /\ a < brk0
    \/ \E p \in libc : p <= a /\ a < p + PAGE_SIZE

InMap(m, a) == \E b \in DOMAIN m.maps : b <= a /\ a < b + m.maps[b]

\* an address the process may access without a fault
Mapped(m, a) == (HeapBase <= a /\ a < m.brk) \/ InMap(m, a)

\* the unwritten foreign word at address a
ForeignWord(a) == IF gapWord = HeadWord /\ a % PAGE_SIZE # 0 THEN 0 ELSE gapWord

\* the word at address a
Peek(m, a) ==
    IF a \in DOMAIN m.mem THEN m.mem[a]
    ELSE IF Foreign(a) THEN ForeignWord(a)
    ELSE 0

\* a read of address a: recorded, or a fault
Rd(m, a) ==
    IF m.fault THEN m
    ELSE IF Mapped(m, a) THEN [m EXCEPT !.rd = @ \cup {a}]
    ELSE [m EXCEPT !.fault = TRUE]

\* a write of word v to address a: recorded, or a fault
Wr(m, a, v) ==
    IF m.fault THEN m
    ELSE IF Mapped(m, a)
         THEN [m EXCEPT !.mem = [x \in DOMAIN @ \cup {a} |-> IF x = a THEN v ELSE @[x]],
                        !.wr = @ \cup {a}]
    ELSE [m EXCEPT !.fault = TRUE]

\* ------------------------------------------------------------------------
\* utils.h: block manipulation
\* ------------------------------------------------------------------------
\* x & SIZE_MASK, i.e. x & ~7
SizeMask(x) == (x \div WORD) * WORD

\* addresses of the link fields of the union
NextFreeAddr(b) == b + WORD
PrevFreeAddr(b) == b + 2 * WORD

\* b->header & ~3UL
get_size(m, b) == (Peek(m, b) \div 4) * 4

\* b->header & 1
is_used(m, b) == Peek(m, b) % 2 = 1

\* b->header & MMAP_FLAG
is_mmap(m, b) == (Peek(m, b) \div MMAP_FLAG) % 2 = 1

set_used(m, b, used) ==
    LET h == Peek(m, b)
    IN  Wr(Rd(m, b), b, IF used THEN (IF h % 2 = 1 THEN h ELSE h + 1)
                        ELSE (IF h % 2 = 1 THEN h - 1 ELSE h))

\* ghost: the size a header was asked to hold and the word written for it
note_header(m, size, word) == [m EXCEPT !.hdr = @ \cup {[size |-> size, word |-> word]}]

set_header(m, b, size, used) ==
    note_header(Wr(m, b, SizeMask(size) + (IF used THEN 1 ELSE 0)),
                size, SizeMask(size) + (IF used THEN 1 ELSE 0))

get_list_index(size) ==
    IF size <= 32 THEN 0
    ELSE IF size <= 64 THEN 1
    ELSE IF size <= 128 THEN 2
    ELSE IF size <= 256 THEN 3
    ELSE IF size <= 512 THEN 4
    ELSE 5

\* if (block->prev_free) ... else segregatedLists[index] = block->next_free
unlink_from_prev(m, block) ==
    LET prev == Peek(m, PrevFreeAddr(block))
        next == Peek(m, NextFreeAddr(block))
        m0 == Rd(m, PrevFreeAddr(block))
    IN  IF prev # 0
        THEN Wr(Rd(m0, NextFreeAddr(block)), NextFreeAddr(prev), next)
        ELSE [Rd(Rd(m0, block), NextFreeAddr(block))
                EXCEPT !.lists[get_list_index(get_size(m, block))] = next]

\* if (block->next_free) block->next_free->prev_free = block->prev_free
unlink_from_next(m, block) ==
    LET next == Peek(m, NextFreeAddr(block))
        m0 == Rd(m, NextFreeAddr(block))
    IN  IF next # 0
        THEN Wr(Rd(m0, PrevFreeAddr(block)), PrevFreeAddr(next),
                Peek(m, PrevFreeAddr(block)))
        ELSE m0

RECURSIVE Member(_, _, _, _)
\* block b is met on the list that starts at cur
Member(m, cur, b, fuel) ==
    IF cur = 0 \/ fuel = 0 THEN FALSE
    ELSE cur = b \/ Member(m, Peek(m, NextFreeAddr(cur)), b, fuel - 1)

\* what remove_from_free_list takes for granted: the block is on the list of
\* its size, and it has no predecessor exactly when it is the head
InPlace(m, block) ==
    /\ Member(m, m.lists[get_list_index(get_size(m, block))], block, MaxScan)
    /\ Peek(m, PrevFreeAddr(block)) = 0
          <=> m.lists[get_list_index(get_size(m, block))] = block

\* ghost: the blocks this call has removed while they were not in place
\* are kept in stray
remove_from_free_list(m, block) ==
    [Wr(Wr(unlink_from_next(unlink_from_prev(m, block), block),
           NextFreeAddr(block), 0),
        PrevFreeAddr(block), 0)
        EXCEPT !.stray = IF InPlace(m, block) THEN @ ELSE @ \cup {block}]

insert_into_free_list(m, block) ==
    LET idx == get_list_index(get_size(m, block))
        head == m.lists[idx]
        m1 == Wr(Wr(Rd(m, block), NextFreeAddr(block), head), PrevFreeAddr(block), 0)
        m2 == IF head # 0 THEN Wr(m1, PrevFreeAddr(head), block) ELSE m1
    IN  [m2 EXCEPT !.lists[idx] = block]

get_footer(m, b) == b + get_size(m, b) - WORD

get_prev_physical_block(m, b) == b - SizeMask(Peek(m, b - WORD))

get_next_physical_block(m, b) == b + get_size(m, b)

get_block_from_payload(ptr) == ptr - WORD

PayloadOf(b) == b + WORD

\* footer->header = block->header
write_footer(m, b) == Wr(Rd(m, b), get_footer(m, b), Peek(m, b))

setup_block(m, b, size, used) ==
    [write_footer(set_header(m, b, size, used), b) EXCEPT !.blocks = @ \cup {b}]

get_page_size == PAGE_SIZE

\* ------------------------------------------------------------------------
\* algorithms.h
\* ------------------------------------------------------------------------
\* size_t arithmetic
W(x) == x % SizeMod

\* (x + page_size - 1) & ~(page_size - 1), in size_t
PageRound(x) == (W(x + get_page_size - 1) \div get_page_size) * get_page_size

\* align without the rounding: n taken as it is
align_unrounded(n) == W(n)

align(n) == SizeMask(W(n + WORD - 1))

\* coalesce that merges nothing
coalesce_off(m, block) == [m EXCEPT !.freed = block, !.merged = {}]

\* the reads of step 1: the header of the next block when it starts below
\* heap_top, the footer before the block when the block is not the first,
\* the header of the previous block when it starts at or after heap_start
coalesce_reads(m, block) ==
    LET next_block == get_next_physical_block(m, block)
        footer_ok == block # heap_start /\ block - WORD >= heap_start
        prev_block == get_prev_physical_block(m, block)
        m0 == Rd(m, block)
        m1 == IF next_block < m.heap_top THEN Rd(m0, next_block) ELSE m0
    IN  IF footer_ok
        THEN IF prev_block >= heap_start
             THEN Rd(Rd(m1, block - WORD), prev_block)
             ELSE Rd(m1, block - WORD)
        ELSE m1

\* new_size += get_size(other)
add_size(m, other) == [m EXCEPT !.new_size = W(@ + get_size(m, other))]

\* cases 1 and 2 of step 2: take the free neighbour off its list, add its size
merge_with(m, other, is_free) ==
    IF is_free THEN add_size(remove_from_free_list(m, other), other) ELSE m

coalesce_result(m, block, result, partners) ==
    [setup_block(m, result, m.new_size, FALSE)
        EXCEPT !.freed = result,
               !.blocks = (@ \ ((partners \cup {block}) \ {result})) \cup {result},
               !.merged = partners]

coalesce(m, block) ==
    LET next_block == get_next_physical_block(m, block)
        next_is_free == next_block < m.heap_top /\ ~is_used(m, next_block)
        footer_ok == block # heap_start /\ block - WORD >= heap_start
        prev_block == IF footer_ok THEN get_prev_physical_block(m, block) ELSE 0
        prev_is_free == footer_ok /\ prev_block >= heap_start /\ ~is_used(m, prev_block)
    IN  coalesce_result(
            merge_with(
                merge_with([coalesce_reads(m, block) EXCEPT !.new_size = get_size(m, block)],
                           next_block, next_is_free),
                prev_block, prev_is_free),
            block,
            IF prev_is_free THEN prev_block ELSE block,
            (IF next_is_free THEN {next_block} ELSE {})
                \cup (IF prev_is_free THEN {prev_block} ELSE {}))

RECURSIVE ScanList(_, _, _, _)
\* the while loop of first_fit over one list
ScanList(m, current, size, fuel) ==
    IF current = 0 \/ m.fault THEN [m |-> m, blk |-> 0]
    ELSE IF fuel = 0 THEN [m |-> [m EXCEPT !.hang = TRUE], blk |-> 0]
    ELSE LET m1 == Rd(m, current)
         IN  IF m1.fault THEN [m |-> m1, blk |-> 0]
             ELSE IF get_size(m, current) >= size THEN [m |-> m1, blk |-> current]
             ELSE ScanList(Rd(m1, NextFreeAddr(current)),
                           Peek(m, NextFreeAddr(current)), size, fuel - 1)

RECURSIVE ScanLists(_, _, _)
\* the for loop of first_fit over the lists i .. NUM_LISTS-1
ScanLists(m, i, size) ==
    IF i >= NUM_LISTS THEN [m |-> m, blk |-> 0]
    ELSE LET r == ScanList(m, m.lists[i], size, MaxScan)
         IN  IF r.blk # 0 \/ r.m.fault \/ r.m.hang THEN r
             ELSE ScanLists(r.m, i + 1, size)

\* first_fit that never finds a block
first_fit_blind(m, size) == [m |-> m, blk |-> 0]

first_fit(m, size) == ScanLists(m, get_list_index(size), size)

MinBlockSize == SIZEOF_BLOCK + WORD

\* split_block that keeps the free remainder at the low addresses
split_block_high(m, block, needed_size) ==
    LET current_size == get_size(m, block)
        m0 == Rd(m, block)
    IN  IF current_size >= W(needed_size + MinBlockSize)
        THEN LET new_size == current_size - needed_size
                 m1 == setup_block(m0, block, new_size, FALSE)
                 m2 == setup_block(m1, block + new_size, needed_size, TRUE)
             IN  [insert_into_free_list(m2, block) EXCEPT !.split = block]
        ELSE m0

\* split_block that splits whenever a word is left over
split_block_tight(m, block, needed_size) ==
    LET current_size == get_size(m, block)
        m0 == Rd(m, block)
    IN  IF current_size >= W(needed_size + WORD)
        THEN LET m1 == setup_block(m0, block, needed_size, TRUE)
                 new_block == block + needed_size
                 new_size == current_size - needed_size
                 m2 == setup_block(m1, new_block, new_size, FALSE)
             IN  [insert_into_free_list(m2, new_block) EXCEPT !.split = new_block]
        ELSE m0

split_block(m, block, needed_size) ==
    LET current_size == get_size(m, block)
        m0 == Rd(m, block)
    IN  IF current_size >= W(needed_size + MinBlockSize)
        THEN LET m1 == setup_block(m0, block, needed_size, TRUE)
                 new_block == block + needed_size
                 new_size == current_size - needed_size
                 m2 == setup_block(m1, new_block, new_size, FALSE)
             IN  [insert_into_free_list(m2, new_block) EXCEPT !.split = new_block]
        ELSE m0

\* step 3, request != heap_end: the slack of the old region becomes a free
\* block when it can hold one, and the heap pointers move to the new space
sbrk_new_region(m, request, sbrk_size) ==
    LET remaining == m.heap_end - m.heap_top
        rescue == remaining >= MinBlockSize
        rest == m.heap_top
        old_end == IF rescue THEN m.heap_end ELSE m.heap_top
    IN  [(IF rescue
          THEN insert_into_free_list(setup_block(m, rest, remaining, FALSE), rest)
          ELSE m)
            EXCEPT !.heap_top = request,
                   !.heap_end = request + sbrk_size,
                   !.gap_start = old_end,
                   !.gap_end = request,
                   !.static_top = old_end,
                   !.rescued = IF rescue THEN rest ELSE 0,
                   !.path = "gap"]

\* the block for the request, at heap_top
sbrk_place(m, total_size) ==
    [setup_block(m, m.heap_top, total_size, TRUE)
        EXCEPT !.heap_top = @ + total_size, !.ret = PayloadOf(m.heap_top)]

\* sbrk_allocation that moves heap_end before it looks at sbrk's answer
sbrk_allocation_eager(m, total_size, ok) ==
    LET sbrk_size == PageRound(IF total_size < get_page_size THEN get_page_size
                               ELSE total_size)
    IN  IF ~ok THEN [m EXCEPT !.sys = "sbrk", !.kernel = "refused", !.ret = 0,
                                  !.path = "null", !.heap_end = @ + sbrk_size]
        ELSE sbrk_place([m EXCEPT !.sys = "sbrk", !.kernel = "granted",
                                  !.brk = @ + sbrk_size, !.heap_end = @ + sbrk_size,
                                  !.path = "grow"],
                        total_size)

\* sbrk_allocation that asks for the request as it is, one page at least,
\* without rounding it up to pages
sbrk_allocation_unrounded(m, total_size, ok) ==
    LET sbrk_size == IF total_size < get_page_size THEN get_page_size ELSE total_size
    IN  IF ~ok THEN [m EXCEPT !.sys = "sbrk", !.kernel = "refused", !.ret = 0,
                                  !.path = "null"]
        ELSE sbrk_place(
                 IF m.brk # m.heap_end
                 THEN sbrk_new_region([m EXCEPT !.sys = "sbrk", !.kernel = "granted",
                                                 !.brk = @ + sbrk_size],
                                      m.brk, sbrk_size)
                 ELSE [m EXCEPT !.sys = "sbrk", !.kernel = "granted", !.brk = @ + sbrk_size,
                                !.heap_end = @ + sbrk_size, !.path = "grow"],
                 total_size)

\* sbrk_allocation that treats every growth as a new region
sbrk_allocation_relocating(m, total_size, ok) ==
    LET sbrk_size == PageRound(IF total_size < get_page_size THEN get_page_size
                               ELSE total_size)
    IN  IF ~ok THEN [m EXCEPT !.sys = "sbrk", !.kernel = "refused", !.ret = 0,
                                  !.path = "null"]
        ELSE [sbrk_place(sbrk_new_region([m EXCEPT !.sys = "sbrk", !.kernel = "granted",
                                                    !.brk = @ + sbrk_size],
                                         m.brk, sbrk_size),
                         total_size)
                EXCEPT !.path = IF m.brk = m.heap_end THEN "grow" ELSE "gap"]

\* sbrk(increment): the kernel grants it (ok) or refuses
sbrk_allocation(m, total_size, ok) ==
    LET page_size == get_page_size
        size_to_alloc == IF total_size < page_size THEN page_size ELSE total_size
        sbrk_size == PageRound(size_to_alloc)
        request == m.brk
    IN  IF ~ok THEN [m EXCEPT !.sys = "sbrk", !.kernel = "refused", !.ret = 0,
                                  !.path = "null"]
        ELSE sbrk_place(
                 IF request # m.heap_end
                 THEN sbrk_new_region([m EXCEPT !.sys = "sbrk", !.kernel = "granted",
                                                 !.brk = @ + sbrk_size],
                                      request, sbrk_size)
                 ELSE [m EXCEPT !.sys = "sbrk", !.kernel = "granted", !.brk = @ + sbrk_size,
                                !.heap_end = @ + sbrk_size, !.path = "grow"],
                 total_size)

\* ------------------------------------------------------------------------
\* mmap_allocator.h
\* ------------------------------------------------------------------------
\* the node comes from libc's malloc, which may move the program break by
\* grow bytes to extend its own arena
libc_malloc(m, grow) ==
    [m EXCEPT !.libc = IF grow = 0 THEN @ ELSE @ \cup {m.brk},
              !.brk = @ + grow]

\* the address libc's malloc returns for a node: the lowest one not in use
NewNode(m) ==
    CHOOSE n \in 1 .. Cardinality(DOMAIN m.nodes) + 1 :
        n \notin DOMAIN m.nodes /\ \A k \in 1 .. n - 1 : k \in DOMAIN m.nodes

\* node->block = block; node->next = NULL; node->prev = mmap_tracked_tail
with_node(m, node, block) ==
    [m EXCEPT !.nodes = [n \in DOMAIN @ \cup {node} |->
                            IF n = node THEN [block |-> block, next |-> 0, prev |-> m.tail]
                            ELSE @[n]]]

\* the node is linked behind the tail, or becomes the head; it is the new tail
link_at_tail(m, node) ==
    [(IF m.tail # 0 THEN [m EXCEPT !.nodes[m.tail].next = node]
      ELSE [m EXCEPT !.head = node])
        EXCEPT !.tail = node]

mmap_track_add(m, block, grow) ==
    [link_at_tail(with_node(libc_malloc(m, grow), NewNode(m), block), NewNode(m))
        EXCEPT !.tracked = Append(@, block)]

\* cur->block
block_of(m, cur) == m.nodes[cur].block

RECURSIVE RemoveFirst(_, _)
RemoveFirst(seq, x) ==
    IF seq = <<>> THEN <<>>
    ELSE IF Head(seq) = x THEN Tail(seq)
    ELSE <<Head(seq)>> \o RemoveFirst(Tail(seq), x)

RECURSIVE FindNode(_, _, _, _)
\* the while loop of mmap_track_remove: the first node from cur that holds
\* block (0 = none, -1 = the walk does not end)
FindNode(m, cur, block, fuel) ==
    IF cur = 0 THEN 0
    ELSE IF fuel = 0 THEN -1
    ELSE IF m.nodes[cur].block = block THEN cur
    ELSE FindNode(m, m.nodes[cur].next, block, fuel - 1)

\* cur is taken out of the list and given back to libc
unlink(m, cur) ==
    [m EXCEPT !.nodes = [n \in DOMAIN @ \ {cur} |->
                            IF n = @[cur].prev THEN [@[n] EXCEPT !.next = m.nodes[cur].next]
                            ELSE IF n = @[cur].next
                            THEN [@[n] EXCEPT !.prev = m.nodes[cur].prev]
                            ELSE @[n]],
              !.head = IF m.nodes[cur].prev # 0 THEN @ ELSE m.nodes[cur].next,
              !.tail = IF m.nodes[cur].next # 0 THEN @ ELSE m.nodes[cur].prev,
              !.tracked = RemoveFirst(@, block_of(m, cur))]

\* mmap_track_remove that leaves the tail pointer as it is
mmap_track_remove_stale_tail(m, block) ==
    IF FindNode(m, m.head, block, MaxScan) = -1 THEN [m EXCEPT !.hang = TRUE]
    ELSE IF FindNode(m, m.head, block, MaxScan) = 0 THEN m
    ELSE [unlink(m, FindNode(m, m.head, block, MaxScan)) EXCEPT !.tail = m.tail]

mmap_track_remove(m, block) ==
    IF FindNode(m, m.head, block, MaxScan) = -1 THEN [m EXCEPT !.hang = TRUE]
    ELSE IF FindNode(m, m.head, block, MaxScan) = 0 THEN m
    ELSE unlink(m, FindNode(m, m.head, block, MaxScan))

\* address the kernel picks for a new mapping
SlotAddr(slot) == MmapBase + slot * MmapStride

FreeSlots(m) == {i \in 0 .. nslots - 1 : SlotAddr(i) \notin DOMAIN m.maps}

\* mmap_allocation that counts one word for the header
mmap_allocation_word_header(m, size, k) ==
    LET page_size == get_page_size
        total_size == W(WORD + size)
        mmap_size == (W(total_size + page_size - 1) \div page_size) * page_size
        ptr == SlotAddr(k.slot)
        m0 == [m EXCEPT !.sys = "mmap"]
    IN  IF ~k.ok \/ mmap_size = 0 \/ k.slot \notin FreeSlots(m)
        THEN [m0 EXCEPT !.kernel = "refused", !.ret = 0, !.path = "null"]
        ELSE LET m1 == [m0 EXCEPT !.maps = [b \in DOMAIN @ \cup {ptr} |->
                                               IF b = ptr THEN mmap_size ELSE @[b]]]
                 m2 == note_header(Wr(m1, ptr, SizeMask(mmap_size) + 1 + MMAP_FLAG),
                                   mmap_size, SizeMask(mmap_size) + 1 + MMAP_FLAG)
                 m3 == mmap_track_add(m2, ptr, k.libc)
             IN  [m3 EXCEPT !.kernel = "granted", !.ret = PayloadOf(ptr), !.path = "mmap"]

\* mmap_allocation that leaves the mmap flag out of the header
mmap_allocation_unflagged(m, size, k) ==
    LET page_size == get_page_size
        total_size == W(SIZEOF_BLOCK + size)
        mmap_size == (W(total_size + page_size - 1) \div page_size) * page_size
        ptr == SlotAddr(k.slot)
        m0 == [m EXCEPT !.sys = "mmap"]
    IN  IF ~k.ok \/ mmap_size = 0 \/ k.slot \notin FreeSlots(m)
        THEN [m0 EXCEPT !.kernel = "refused", !.ret = 0, !.path = "null"]
        ELSE LET m1 == [m0 EXCEPT !.maps = [b \in DOMAIN @ \cup {ptr} |->
                                               IF b = ptr THEN mmap_size ELSE @[b]]]
                 m2 == note_header(Wr(m1, ptr, SizeMask(mmap_size) + 1),
                                   mmap_size, SizeMask(mmap_size) + 1)
                 m3 == mmap_track_add(m2, ptr, k.libc)
             IN  [m3 EXCEPT !.kernel = "granted", !.ret = PayloadOf(ptr), !.path = "mmap"]

\* mmap(NULL, len, ...): MAP_FAILED when the kernel refuses, len is 0 or no slot is left
mmap_allocation(m, size, k) ==
    LET page_size == get_page_size
        total_size == W(SIZEOF_BLOCK + size)
        mmap_size == (W(total_size + page_size - 1) \div page_size) * page_size
        ptr == SlotAddr(k.slot)
        m0 == [m EXCEPT !.sys = "mmap"]
    IN  IF ~k.ok \/ mmap_size = 0 \/ k.slot \notin FreeSlots(m)
        THEN [m0 EXCEPT !.kernel = "refused", !.ret = 0, !.path = "null"]
        ELSE LET m1 == [m0 EXCEPT !.maps = [b \in DOMAIN @ \cup {ptr} |->
                                               IF b = ptr THEN mmap_size ELSE @[b]]]
                 m2 == note_header(Wr(m1, ptr, SizeMask(mmap_size) + 1 + MMAP_FLAG),
                                   mmap_size, SizeMask(mmap_size) + 1 + MMAP_FLAG)
                 m3 == mmap_track_add(m2, ptr, k.libc)
             IN  [m3 EXCEPT !.kernel = "granted", !.ret = PayloadOf(ptr), !.path = "mmap"]

\* munmap(addr, len): a whole mapping goes away
munmap(m, addr, len) ==
    IF addr \in DOMAIN m.maps /\ m.maps[addr] = len
    THEN [m EXCEPT !.maps = [b \in DOMAIN @ \ {addr} |-> @[b]],
                   !.mem = [a \in {x \in DOMAIN @ : ~(addr <= x /\ x < addr + len)} |-> @[a]],
                   !.unmapped = <<addr, len>>]
    ELSE [m EXCEPT !.unmapped = <<addr, len>>]

\* mmap_free that unmaps the payload's length instead of the mapping's
mmap_free_short(m, block) ==
    LET size == get_size(m, block) - SIZEOF_BLOCK
        m1 == mmap_track_remove(Rd(m, block), block)
    IN  [munmap(m1, block, size) EXCEPT !.path = "munmap"]

mmap_free(m, block) ==
    LET size == get_size(m, block)
        m1 == mmap_track_remove(Rd(m, block), block)
    IN  [munmap(m1, block, size) EXCEPT !.path = "munmap"]

\* ------------------------------------------------------------------------
\* heap_allocator.h
\* ------------------------------------------------------------------------
\* the total size without the minimum block size
TotalSize_unclamped(size) == W(WORD + align(size) + WORD)

TotalSize(size) ==
    LET total_size == W(WORD + align(size) + WORD)
    IN  IF total_size < MinBlockSize THEN MinBlockSize ELSE total_size

\* a block found by first_fit: off its list, split, marked used
take_block(m, block, total_size) ==
    [write_footer(set_used(split_block(remove_from_free_list(m, block), block, total_size),
                           block, TRUE),
                  block)
        EXCEPT !.ret = PayloadOf(block), !.path = "fit"]

\* a carve that sets up a block of the aligned payload only, without the
\* header and footer words
carve_block_payload_only(m, total_size) ==
    [setup_block(m, m.heap_top, total_size - 2 * WORD, TRUE)
        EXCEPT !.heap_top = @ + total_size, !.ret = PayloadOf(m.heap_top), !.path = "carve"]

\* a block carved at heap_top
carve_block(m, total_size) ==
    [setup_block(m, m.heap_top, total_size, TRUE)
        EXCEPT !.heap_top = @ + total_size, !.ret = PayloadOf(m.heap_top), !.path = "carve"]

\* my_malloc that carves at heap_top while there is room, and looks at
\* first_fit's answer only then
malloc_small_carve_first(r, total_size, k) ==
    IF r.m.fault \/ r.m.hang THEN r.m
    ELSE IF r.m.heap_top + total_size <= r.m.heap_end THEN carve_block(r.m, total_size)
    ELSE IF r.blk # 0 THEN take_block(r.m, r.blk, total_size)
    ELSE sbrk_allocation(r.m, total_size, k.ok)

\* my_malloc after first_fit has answered r
malloc_small(r, total_size, k) ==
    IF r.m.fault \/ r.m.hang THEN r.m
    ELSE IF r.blk # 0 THEN take_block(r.m, r.blk, total_size)
    ELSE IF r.m.heap_top + total_size <= r.m.heap_end THEN carve_block(r.m, total_size)
    ELSE sbrk_allocation(r.m, total_size, k.ok)

\* my_malloc without the test against MMAP_THRESHOLD
my_malloc_no_threshold(m, size, k) ==
    IF size = 0 THEN [m EXCEPT !.ret = 0, !.path = "zero"]
    ELSE malloc_small(first_fit(m, TotalSize(size)), TotalSize(size), k)

my_malloc(m, size, k) ==
    IF size = 0 THEN [m EXCEPT !.ret = 0, !.path = "zero"]
    ELSE IF align(size) >= MMAP_THRESHOLD THEN mmap_allocation(m, align(size), k)
    ELSE malloc_small(first_fit(m, TotalSize(size)), TotalSize(size), k)

\* coalesced = coalesce(block); insert_into_free_list(coalesced)
insert_coalesced(m) == insert_into_free_list(m, m.freed)

\* my_free without the test for a null pointer
my_free_unguarded(m, ptr) ==
    LET block == get_block_from_payload(ptr)
    IN  IF ~Mapped(m, block) THEN Rd(m, block)
        ELSE IF is_mmap(m, block) THEN mmap_free(Rd(m, block), block)
        ELSE [insert_coalesced(
                  coalesce(write_footer(set_used(Rd(m, block), block, FALSE), block),
                           block))
                EXCEPT !.path = "free"]

\* a free block that ends at heap_top is given back to the wavefront
give_back(m) ==
    IF m.freed # 0 /\ m.freed + get_size(m, m.freed) = m.heap_top
    THEN [m EXCEPT !.heap_top = m.freed]
    ELSE m

\* my_free that lowers heap_top when the freed block ends there
my_free_retreating(m, ptr) ==
    IF ptr = 0 THEN [m EXCEPT !.path = "null"]
    ELSE give_back(my_free_unguarded(m, ptr))

my_free(m, ptr) ==
    IF ptr = 0 THEN [m EXCEPT !.path = "null"]
    ELSE
    LET block == get_block_from_payload(ptr)
    IN  IF ~Mapped(m, block) THEN Rd(m, block)
        ELSE IF is_mmap(m, block) THEN mmap_free(Rd(m, block), block)
        ELSE [insert_coalesced(
                  coalesce(write_footer(set_used(Rd(m, block), block, FALSE), block),
                           block))
                EXCEPT !.path = "free"]

\* ------------------------------------------------------------------------
\* The host program: any sequence of my_malloc and my_free calls
\* ------------------------------------------------------------------------
KernelOk == [ok |-> TRUE, slot |-> 0, word |-> gapWord, libc |-> 0]

\* the answers open to a call that, were every request granted, would end as probe
ChoicesFor(probe, m) ==
    IF probe.path = "gap"
    THEN {[KernelOk EXCEPT !.word = w] : w \in GapWords}
             \cup {[KernelOk EXCEPT !.ok = FALSE]}
    ELSE IF probe.sys = "sbrk" THEN {KernelOk, [KernelOk EXCEPT !.ok = FALSE]}
    ELSE IF probe.sys = "mmap"
    THEN {[KernelOk EXCEPT !.slot = s, !.libc = g] : s \in FreeSlots(m), g \in LibcGrows}
             \cup {[KernelOk EXCEPT !.ok = FALSE]}
    ELSE {KernelOk}

\* what the kernel may answer to the calls this my_malloc makes
KernelChoices(m, size) == ChoicesFor(my_malloc(m, size, KernelOk), m)

\* the call's effect on the process; a call that dies leaves the state as it was.
\* The contents of the foreign memory are drawn (word) when a growth first
\* leaves it inside the heap's address range: nothing reads it before.
Commit(m, call, word) ==
    /\ status' = IF m.fault THEN "segv" ELSE IF m.hang THEN "hang" ELSE "running"
    /\ nops' = nops + 1
    /\ calls' = IF Len(calls) < MaxHist THEN Append(calls, call)
                 ELSE Append(Tail(calls), call)
    /\ IF m.fault \/ m.hang
       THEN UNCHANGED <<mem, segregatedLists, heap_top, heap_end, brk, libc, maps, tracked,
                        nodes, mmap_tracked_head, mmap_tracked_tail,
                        gap_start, gap_end, static_top, blocks, rd, wr>>
       ELSE /\ mem' = m.mem
            /\ libc' = m.libc
            /\ segregatedLists' = m.lists
            /\ heap_top' = m.heap_top
            /\ heap_end' = m.heap_end
            /\ brk' = m.brk
            /\ maps' = m.maps
            /\ tracked' = m.tracked
            /\ nodes' = m.nodes
            /\ mmap_tracked_head' = m.head
            /\ mmap_tracked_tail' = m.tail
            /\ gap_start' = m.gap_start
            /\ gap_end' = m.gap_end
            /\ static_top' = m.static_top
            /\ blocks' = m.blocks
            /\ rd' = m.rd
            /\ wr' = m.wr
    /\ gapWord' = IF m.fault \/ m.hang THEN gapWord ELSE word
    /\ UNCHANGED <<brk0, nslots>>

CallOf(op, arg, m) ==
    [op |-> op, arg |-> arg, ret |-> m.ret, path |-> m.path, sys |-> m.sys,
     freed |-> m.freed, merged |-> m.merged, split |-> m.split,
     rescued |-> m.rescued, unmapped |-> m.unmapped, kernel |-> m.kernel,
     stray |-> m.stray, hdr |-> m.hdr,
     top0 |-> heap_top, end0 |-> heap_end,
     empty0 |-> \A i \in 0 .. NUM_LISTS - 1 : segregatedLists[i] = 0,
     size0 |-> IF op = "free" /\ arg # 0
               THEN get_size(Cur, get_block_from_payload(arg)) ELSE 0]

\* the pointers the host holds after my_malloc(size) ended as m
LiveWith(m, size) ==
    IF m.fault \/ m.hang \/ m.ret = 0 THEN live
    ELSE live \cup {[p |-> m.ret, n |-> size, id |-> nops,
                     sz |-> get_size(m, get_block_from_payload(m.ret))]}

MallocDone(m, size, word) ==
    /\ Commit(m, CallOf("malloc", size, m), word)
    /\ live' = LiveWith(m, size)

DoMalloc(size) ==
    /\ status = "running"
    /\ \E k \in KernelChoices(Cur, size) :
          MallocDone(my_malloc(Cur, size, k), size, k.word)

FreeDone(m, e) ==
    /\ Commit(m, CallOf("free", e.p, m), gapWord)
    /\ live' = IF m.fault \/ m.hang THEN live ELSE live \ {e}

DoFree(e) ==
    /\ status = "running"
    /\ FreeDone(my_free(Cur, e.p), e)

\* the host calls my_malloc(size)
Malloc(size) == nops < MaxOps /\ DoMalloc(size) /\ UNCHANGED batch

\* the host calls my_free on a live pointer
Free(e) == nops < MaxOps /\ DoFree(e) /\ UNCHANGED batch

\* the host calls my_free(NULL)
FreeNull ==
    /\ nops < MaxOps
    /\ status = "running"
    /\ Commit(my_free(Cur, 0), CallOf("free", 0, my_free(Cur, 0)), gapWord)
    /\ UNCHANGED <<live, batch>>

NoCall ==
    [op |-> "none", arg |-> 0, ret |-> 0, path |-> "none", sys |-> "none",
     freed |-> 0, merged |-> {}, split |-> 0, rescued |-> 0, unmapped |-> <<>>,
     kernel |-> "none", stray |-> {}, hdr |-> {}, top0 |-> HeapBase, end0 |-> HeapBase + HEAP_TOTAL_SIZE,
     empty0 |-> TRUE, size0 |-> 0]

\* the last call, the one before it, and the one before that
last == IF Len(calls) >= 1 THEN calls[Len(calls)] ELSE NoCall
prev1 == IF Len(calls) >= 2 THEN calls[Len(calls) - 1] ELSE NoCall
prev2 == IF Len(calls) >= 3 THEN calls[Len(calls) - 2] ELSE NoCall

\* the process at its start, on a kernel with slots address slots for mappings
Started(slots) ==
    /\ mem = [a \in {} |-> 0]
    /\ segregatedLists = [i \in 0 .. NUM_LISTS - 1 |-> 0]
    /\ heap_top = HeapBase
    /\ heap_end = HeapBase + HEAP_TOTAL_SIZE
    /\ \E g \in GapSizes : brk0 = HeapBase + HEAP_TOTAL_SIZE + g
    /\ gapWord = 0
    /\ brk = brk0
    /\ libc = {}
    /\ maps = [b \in {} |-> 0]
    /\ tracked = <<>>
    /\ nodes = [n \in {} |-> 0]
    /\ mmap_tracked_head = 0
    /\ mmap_tracked_tail = 0
    /\ nslots = slots
    /\ gap_start = 0
    /\ gap_end = 0
    /\ static_top = 0
    /\ blocks = {}
    /\ live = {}
    /\ rd = {}
    /\ wr = {}
    /\ calls = <<>>
    /\ status = "running"
    /\ nops = 0
    /\ batch = [phase |-> "idle", s |-> 0, ptrs |-> <<>>, sizes |-> <<>>]

Init == Started(MaxMaps)

Next ==
    \/ \E size \in ReqSizes : Malloc(size)
    \/ \E e \in live : Free(e)

Spec == Init /\ [][Next]_vars

\* ------------------------------------------------------------------------
\* The host program calling my_malloc with sizes next to the largest size_t
\* ------------------------------------------------------------------------
NextWrap ==
    \/ \E size \in WrapSizes \cup {8} : Malloc(size)
    \/ \E e \in live : Free(e)

SpecWrap == Init /\ [][NextWrap]_vars

\* ------------------------------------------------------------------------
\* The stress host: small allocations interleaved with frees on a kernel
\* whose break can always advance
\* ------------------------------------------------------------------------
StressMalloc(size) ==
    /\ nops < MaxStress
    /\ status = "running"
    /\ \E k \in {c \in KernelChoices(Cur, size) : c.ok} :
          MallocDone(my_malloc(Cur, size, k), size, k.word)
    /\ UNCHANGED batch

StressFree(e) == nops < MaxStress /\ DoFree(e) /\ UNCHANGED batch

NextStress ==
    \/ \E size \in StressSizes : StressMalloc(size)
    \/ \E e \in live : StressFree(e)

SpecStress == Init /\ [][NextStress]_vars

\* ------------------------------------------------------------------------
\* The host that asks for large blocks of several lengths and frees them, as
\* test_mmap_threshold does
\* ------------------------------------------------------------------------
PageMalloc(size) == nops < MaxPage /\ DoMalloc(size) /\ UNCHANGED batch

PageFree(e) == nops < MaxPage /\ DoFree(e) /\ UNCHANGED batch

NextPage ==
    \/ \E size \in PageSizes : PageMalloc(size)
    \/ \E e \in live : PageFree(e)

SpecPage == Init /\ [][NextPage]_vars

\* ------------------------------------------------------------------------
\* The host that holds up to three large blocks and frees them in any order,
\* on a kernel with three address slots
\* ------------------------------------------------------------------------
InitRegistry == Started(MaxTracked)

RegMalloc(size) == nops < MaxReg /\ DoMalloc(size) /\ UNCHANGED batch

RegFree(e) == nops < MaxReg /\ DoFree(e) /\ UNCHANGED batch

NextRegistry ==
    \/ \E size \in LargeSizes : RegMalloc(size)
    \/ \E e \in live : RegFree(e)

SpecRegistry == InitRegistry /\ [][NextRegistry]_vars

\* ------------------------------------------------------------------------
\* The host that mixes small and large requests, so that heap growths and
\* registry nodes alternate, and then frees what it holds in any order, as
\* test_large_blocks does, on a kernel that grants every request; it holds one large
\* block at most
\* ------------------------------------------------------------------------
GrowMalloc(size) ==
    /\ nops < MaxGrow
    /\ status = "running"
    /\ last.op # "free"
    /\ size \in LargeSizes => tracked = <<>>
    /\ \E k \in {c \in KernelChoices(Cur, size) : c.ok} :
          MallocDone(my_malloc(Cur, size, k), size, k.word)
    /\ UNCHANGED batch

GrowFree(e) == nops < MaxGrow /\ DoFree(e) /\ UNCHANGED batch

NextGrow ==
    \/ \E size \in GrowSizes : GrowMalloc(size)
    \/ \E e \in live : GrowFree(e)

SpecGrow == Init /\ [][NextGrow]_vars

\* ------------------------------------------------------------------------
\* The host program that also calls my_malloc(0) and my_free(NULL)
\* ------------------------------------------------------------------------
NextNull ==
    \/ \E size \in NullSizes : Malloc(size)
    \/ \E e \in live : Free(e)
    \/ FreeNull

SpecNull == Init /\ [][NextNull]_vars

\* ------------------------------------------------------------------------
\* The host program of the coalescing test: N equal small requests from a
\* fresh heap, all freed in some order, then one request of N times the size
\* ------------------------------------------------------------------------
\* the result of the call that has just been made
Result == calls'[Len(calls')]

BatchAlloc(s) ==
    /\ batch.phase \in {"idle", "alloc"}
    /\ batch.phase = "alloc" => s = batch.s
    /\ Len(batch.ptrs) < MaxBatch
    /\ DoMalloc(s)
    /\ batch' = IF status' = "running" /\ Result.ret # 0
                THEN [phase |-> "alloc", s |-> s,
                      ptrs |-> Append(batch.ptrs, Result.ret),
                      sizes |-> Append(batch.sizes,
                                       get_size([mem |-> mem'],
                                                get_block_from_payload(Result.ret)))]
                ELSE [batch EXCEPT !.phase = "void"]

BatchFree(e) ==
    /\ batch.phase \in {"alloc", "free"}
    /\ DoFree(e)
    /\ batch' = [batch EXCEPT !.phase = IF status' = "running" THEN "free" ELSE "void"]

BatchFinal ==
    /\ batch.phase = "free"
    /\ live = {}
    /\ DoMalloc(W(Len(batch.ptrs) * batch.s))
    /\ batch' = [batch EXCEPT !.phase = IF status' = "running" THEN "done" ELSE "void"]

NextBatch ==
    \/ \E s \in BatchSizes : BatchAlloc(s)
    \/ \E e \in live : BatchFree(e)
    \/ BatchFinal

SpecBatch == Init /\ [][NextBatch]_vars

\* ------------------------------------------------------------------------
\* Vocabulary of the properties
\* ------------------------------------------------------------------------
\* the byte ranges [p, p+n) of two live pointers are disjoint
Disjoint(e1, e2) == e1.p + e1.n <= e2.p \/ e2.p + e2.n <= e1.p

\* end of the blocks of the region that starts at heap_start
StaticEnd == IF gap_end = 0 THEN heap_top ELSE static_top

\* the region an address lies in: its first block and the end of its blocks
RegionStart(b) == IF gap_end # 0 /\ b >= gap_end THEN gap_end ELSE heap_start
RegionEnd(b) == IF gap_end # 0 /\ b < gap_end THEN static_top ELSE heap_top

WalkFuel == 4 * MaxOps + 4

RECURSIVE WalkFrom(_, _, _)
\* the block headers met from b by repeatedly adding the block's size
WalkFrom(b, end, fuel) ==
    IF b >= end \/ fuel = 0 THEN {}
    ELSE IF get_size(Cur, b) = 0 THEN {b}
    ELSE {b} \cup WalkFrom(b + get_size(Cur, b), end, fuel - 1)

\* the small blocks of the walkable heap
WalkBlocks ==
    WalkFrom(heap_start, StaticEnd, WalkFuel)
        \cup (IF gap_end # 0 THEN WalkFrom(gap_end, heap_top, WalkFuel) ELSE {})

RECURSIVE ListFrom(_, _)
\* the blocks linked from b through next_free
ListFrom(b, fuel) ==
    IF b = 0 \/ fuel = 0 THEN {}
    ELSE {b} \cup ListFrom(Peek(Cur, NextFreeAddr(b)), fuel - 1)

\* the blocks reachable from the six list heads
ListedBlocks == UNION {ListFrom(segregatedLists[i], WalkFuel) : i \in 0 .. NUM_LISTS - 1}

\* the live pointers that came from the heap, not from a mapping
SmallLive == {e \in live : ~InMap(Cur, e.p)}

\* a call has just returned in a process that is still running
Returned(op) == status = "running" /\ last.op = op

\* the small total size and the path selector of my_malloc
Small(n) == align(n) < MMAP_THRESHOLD

\* the live pointers handed out before the last call
Older == {e \in live : ~(last.op = "malloc" /\ e.id = nops - 1)}

\* the small blocks that end where b starts
BlockEndingAt(b) == {x \in blocks : x + get_size(Cur, x) = b}

\* ------------------------------------------------------------------------
\* Properties
\* ------------------------------------------------------------------------
\* C1: after any sequence of my_malloc / my_free calls on live pointers, the
\* byte ranges [p1, p1+n1) and [p2, p2+n2) of any two live pointers are
\* disjoint.
C1_NoOverlap == \A e1 \in live, e2 \in live : e1 # e2 => Disjoint(e1, e2)

\* C2: while p is live, a call on another pointer writes no byte of
\* [p, p+n), and the header of p's block keeps its size and its used bit.
C2_Frame ==
    status = "running" =>
        \A e \in Older :
            /\ \A a \in wr : ~(e.p <= a /\ a < e.p + e.n)
            /\ get_size(Cur, get_block_from_payload(e.p)) = e.sz
            /\ is_used(Cur, get_block_from_payload(e.p))

\* C4: every non-null pointer my_malloc returns, on any path, is a multiple
\* of the word size.
C4_Aligned ==
    /\ \A e \in live : e.p % WORD = 0
    /\ last.op = "malloc" => last.ret % WORD = 0

\* C4 witness: pointers from a mapping, from a non-contiguous growth and from
\* a first-fit reuse with a split are live together.
C4_Witness ==
    /\ status = "running"
    /\ \E e \in live : InMap(Cur, e.p)
    /\ gap_end # 0 /\ \E e \in live : e.p = PayloadOf(gap_end)
    /\ last.path = "fit" /\ last.split # 0 /\ last.ret # 0

\* my_malloc(k), my_free(p) on its result and my_malloc(k) again were the last
\* three calls, k small
ReuseCase ==
    /\ status = "running"
    /\ prev2.op = "malloc" /\ prev2.ret # 0 /\ Small(prev2.arg)
    /\ prev1.op = "free" /\ prev1.arg = prev2.ret
    /\ last.op = "malloc" /\ last.arg = prev2.arg

\* C5 as stated: p = my_malloc(k), my_free(p), my_malloc(k) with k small and
\* no call in between returns p again, whatever p's physical neighbours are.
C5_Reuse == ReuseCase => last.ret = prev2.ret

\* C5 amended: the second my_malloc(k) returns p again provided my_free(p)
\* merged p's block with no other block, or only with the remainder the first
\* my_malloc(k) split off.
C5_ReuseUnmerged ==
    (ReuseCase /\ prev1.merged \subseteq ({prev2.split} \ {0})) => last.ret = prev2.ret

\* C5 witness: the first my_malloc(k) split a free block, my_free(p) merged
\* the remainder back and the second my_malloc(k) has returned.
C5_Witness ==
    /\ ReuseCase
    /\ prev2.path = "fit" /\ prev2.split # 0
    /\ prev1.merged = {prev2.split}
    /\ last.ret # 0

\* C6: when my_free(p) on a small block returns, the free block that holds
\* p's former block has no free physical neighbour in its region: the block
\* right after it and the block right before it are in use.
C6_NoFreeNeighbour ==
    (Returned("free") /\ last.path = "free") =>
        LET b == last.freed
            next == get_next_physical_block(Cur, b)
        IN  /\ (next \in blocks /\ next < RegionEnd(b)) => is_used(Cur, next)
            /\ b # RegionStart(b) => \A x \in BlockEndingAt(b) : is_used(Cur, x)

\* C8: after a non-contiguous growth no call reads or writes an address of
\* the gap and no block of the walkable heap reaches into it.
C8_GapUntouched ==
    gap_end # 0 =>
        /\ \A a \in rd \cup wr : ~Foreign(a)
        /\ \A b \in WalkBlocks :
              \A a \in {b, b + get_size(Cur, b) - WORD} : ~Foreign(a)

\* C9: at the end of every call, every small block of the walkable heap has
\* a footer word equal to its header word.
C9_FooterIsHeader ==
    \A b \in WalkBlocks :
        /\ get_size(Cur, b) >= 2 * WORD
        /\ Peek(Cur, get_footer(Cur, b)) = Peek(Cur, b)

\* C10: every small block, used or free, has a total size of at least
\* min_block_size = 32 bytes.
C10_MinBlock ==
    \A b \in blocks \cup {get_block_from_payload(e.p) : e \in SmallLive} :
        get_size(Cur, b) >= MinBlockSize

\* C10 witness: a split remainder, a rescued slack block and a block merged by
\* my_free exist together.
C10_Witness ==
    /\ status = "running"
    /\ \E i \in 1 .. Len(calls) : calls[i].rescued # 0
    /\ \E i \in 1 .. Len(calls) : calls[i].split # 0
    /\ \E i \in 1 .. Len(calls) : calls[i].merged # {}

\* the payload area of a live pointer's block: up to the footer of a small
\* block, up to the end of the mapping of a large one
Usable(e) ==
    IF InMap(Cur, e.p)
    THEN LET b == get_block_from_payload(e.p) IN b + get_size(Cur, b) - e.p
    ELSE e.sz - 2 * WORD

\* C3: for every n of size_t, with the size arithmetic taken modulo 2^w,
\* my_malloc(n) returns null or a pointer whose block has at least n bytes of
\* payload area, also for n within a few words of the maximum.
C3_EnoughPayload == \A e \in live : Usable(e) >= e.n

RECURSIVE SumSeq(_)
SumSeq(q) == IF q = <<>> THEN 0 ELSE Head(q) + SumSeq(Tail(q))

\* the N blocks of the batch have all been freed and nothing else was called
AllFreed == batch.phase = "free" /\ live = {}

\* exactly one free block, at the first block's address, as large as the N
\* blocks together
OneFreeBlock ==
    LET first == get_block_from_payload(batch.ptrs[1])
    IN  /\ ListedBlocks = {first}
        /\ {b \in blocks : ~is_used(Cur, b)} = {first}
        /\ get_size(Cur, first) = SumSeq(batch.sizes)

\* the request of N times the size was served from the first block
ServedFromFirst ==
    /\ last.ret = batch.ptrs[1]
    /\ last.path = "fit"
    /\ heap_top = last.top0

\* C7 as stated: N equal small blocks allocated back to back from a fresh
\* heap and freed in any order leave one free block at the first block's
\* address whose size is the sum of the N sizes, and my_malloc(N*s) then
\* returns the first pointer without advancing heap_top.
C7_Batch ==
    /\ AllFreed => OneFreeBlock
    /\ batch.phase = "done" => ServedFromFirst

\* C7 amended: the same, provided none of the N allocations grew the heap
\* non-contiguously and N*s aligns below the large threshold.
C7_BatchOneRegion ==
    /\ (AllFreed /\ gap_end = 0) => OneFreeBlock
    /\ (batch.phase = "done" /\ gap_end = 0 /\ Small(last.arg)) => ServedFromFirst

\* C7 witness: three blocks, the second and third from contiguous growth,
\* were freed and my_malloc(3*s) has split the merged block.
C7_Witness ==
    /\ batch.phase = "done" /\ gap_end = 0
    /\ Len(batch.ptrs) = MaxBatch /\ batch.s = 4000
    /\ last.split # 0 /\ last.ret = batch.ptrs[1]

\* the words of the static array and of the sbrk region
HeapMem == [a \in {x \in DOMAIN mem : x < MmapBase} |-> mem[a]]

\* my_malloc(n), n > 0, has just returned
MallocStep == last'.op = "malloc" /\ last'.arg > 0 /\ status' = "running"

\* the large path: a payload outside the heap, the heap as it was
LargeStep ==
    /\ last'.sys = "mmap"
    /\ last'.ret # 0 => ~(heap_start <= last'.ret /\ last'.ret < heap_end')
    /\ HeapMem' = HeapMem /\ blocks' = blocks
    /\ UNCHANGED <<segregatedLists, heap_top, heap_end>>

\* the small path: no mapping asked for, a payload inside the heap
SmallStep ==
    /\ last'.sys # "mmap"
    /\ last'.ret # 0 => heap_start <= last'.ret /\ last'.ret < heap_end'

\* C11: my_malloc(n) takes the large-mapping path exactly when
\* align(n) >= 131072; the payload then lies outside [heap_start, heap_end)
\* and no block, free list or region pointer of the heap changes; when
\* align(n) < 131072 the payload lies inside [heap_start, heap_end) as it
\* stands after the call.
C11_PathBySize ==
    [][MallocStep => IF Small(last'.arg) THEN SmallStep ELSE LargeStep]_vars

\* C11 witness: a mapping was handed out while the heap had used blocks and
\* a free block, and a small request was served by growing the heap.
C11_Witness ==
    /\ Returned("malloc") /\ ~Small(last.arg) /\ last.ret # 0
    /\ ListedBlocks # {} /\ SmallLive # {}
    /\ prev1.op = "malloc" /\ Small(prev1.arg) /\ prev1.sys = "sbrk" /\ prev1.ret # 0

\* my_malloc(0) or my_free(NULL) has just been called
NullStep == last'.arg = 0 /\ last'.op \in {"malloc", "free"}

\* C12: my_malloc(0) returns null and my_free(null) returns immediately; in
\* both cases heap_top, heap_end, every header and footer, the six list heads
\* and their links and the large-mapping registry are unchanged and no system
\* call is made.
C12_NullCalls ==
    [][NullStep =>
          /\ status' = "running" /\ last'.ret = 0
          /\ last'.sys = "none" /\ last'.kernel = "none"
          /\ rd' = {} /\ wr' = {}
          /\ UNCHANGED <<mem, segregatedLists, heap_top, heap_end, tracked, maps, brk>>]_vars

\* C12 witness: my_malloc(0) and then my_free(NULL) were called while the
\* heap had a free block and a used block and the registry had a record.
C12_Witness ==
    /\ Returned("free") /\ last.arg = 0
    /\ prev1.op = "malloc" /\ prev1.arg = 0
    /\ ListedBlocks # {} /\ SmallLive # {} /\ tracked # <<>>

\* the kernel has refused the sbrk or the mmap of the call just made
Refused == last'.op = "malloc" /\ last'.kernel = "refused"

\* C13: when sbrk returns -1 or mmap returns MAP_FAILED, my_malloc returns
\* null and heap_top, heap_end, every block, every free list and the registry
\* are the same as before the call.
C13_RefusalKeepsState ==
    [][Refused =>
          /\ status' = "running" /\ last'.ret = 0 /\ wr' = {}
          /\ blocks' = blocks /\ live' = live
          /\ UNCHANGED <<mem, segregatedLists, heap_top, heap_end, tracked, maps, brk>>]_vars

\* C13 witness: with a free block, a used block and a registry record in
\* place, mmap was refused to one call and sbrk to the next.
C13_Witness ==
    /\ Returned("malloc") /\ last.kernel = "refused" /\ last.sys = "sbrk"
    /\ prev1.op = "malloc" /\ prev1.kernel = "refused" /\ prev1.sys = "mmap"
    /\ ListedBlocks # {} /\ SmallLive # {} /\ tracked # <<>>

\* C14: my_malloc(n) with n > 0 returns null only if the kernel call made by
\* that invocation fails: when a free block fits, or the wavefront has room,
\* or sbrk / mmap succeeds, the call returns a non-null pointer; a run of
\* small allocations that exhausts the static heap, interleaved with frees,
\* keeps succeeding as long as sbrk succeeds.
C14_NullOnlyOnRefusal ==
    (last.op = "malloc" /\ last.arg > 0 /\ last.kernel # "refused")
        => (status = "running" /\ last.ret # 0)

\* the elements of a sequence
Range(q) == {q[i] : i \in DOMAIN q}

\* my_free(p) has just been called on a pointer from the large path
LargeFree == last'.op = "free" /\ last'.arg # 0 /\ InMap(Cur, last'.arg)

\* the effect of my_free on the large block b
LargeFreeOf(b) ==
    /\ status' = "running"
    /\ last'.unmapped = <<b, maps[b]>>
    /\ DOMAIN maps' = DOMAIN maps \ {b}
    /\ b \in Range(tracked) /\ tracked' = RemoveFirst(tracked, b)
    /\ b \notin Range(tracked')
    /\ rd' = {b} /\ wr' = {}
    /\ last'.merged = {} /\ blocks' = blocks /\ HeapMem' = HeapMem
    /\ UNCHANGED <<segregatedLists, heap_top, heap_end, brk>>

EmptyReuseCase ==
    /\ prev2.op = "malloc" /\ Small(prev2.arg) /\ prev2.ret # 0 /\ prev2.empty0
    /\ prev1.op = "free" /\ prev1.arg = prev2.ret
    /\ last.op = "malloc" /\ 0 < last.arg /\ last.arg <= prev2.arg

\* the block of p2 is the low part and the remainder of the split is the tail
LowPartAllocated ==
    LET b == get_block_from_payload(last.ret)
    IN  last.split # 0 =>
            /\ is_used(Cur, b) /\ get_size(Cur, b) = TotalSize(last.arg)
            /\ last.split = b + get_size(Cur, b)
            /\ ~is_used(Cur, last.split) /\ last.split \in ListedBlocks

\* C16 as stated: from a state whose free-list index is empty,
\* p1 = my_malloc(a); my_free(p1); p2 = my_malloc(b) with 0 < b <= a and
\* align(a) < 131072 gives p2 == p1, and when the block is split the
\* allocated part is the low-address part and the free remainder is the tail.
C16_EmptyReuse ==
    EmptyReuseCase =>
        /\ status = "running" /\ last.ret = prev2.ret
        /\ LowPartAllocated

\* C16 amended: the same, provided the first my_malloc(a) did not turn the
\* slack of the old region into a free block.
C16_EmptyReuseNoSlack ==
    (EmptyReuseCase /\ prev2.rescued = 0) =>
        /\ status = "running" /\ last.ret = prev2.ret
        /\ LowPartAllocated

\* C16 witness: with other blocks in use and no free block, a block obtained
\* by growing the heap was freed and a smaller request has split it.
C16_Witness ==
    /\ EmptyReuseCase /\ prev2.rescued = 0 /\ prev2.sys = "sbrk"
    /\ status = "running" /\ last.split # 0 /\ last.arg < prev2.arg
    /\ Cardinality(SmallLive) >= 2

\* my_free was called, after a non-contiguous growth, on the block of the
\* static region that ends where the blocks of that region end
EdgeFree ==
    /\ last.op = "free" /\ last.arg # 0 /\ gap_end # 0
    /\ get_block_from_payload(last.arg) < static_top
    /\ get_block_from_payload(last.arg) + last.size0 = static_top

\* C17: when my_free is called on the block that ends at the edge of the
\* static region after a non-contiguous growth, coalesce does not treat the
\* address that follows it as a block: it reads no header there, does not
\* call remove_from_free_list on it and adds nothing to the block's size.
C17_EdgeNextUntouched ==
    EdgeFree =>
        /\ status = "running"
        /\ static_top \notin rd
        /\ static_top \notin last.merged
        /\ get_block_from_payload(last.arg) + last.size0
               = last.freed + get_size(Cur, last.freed)

\* my_free was called on the block at heap_start or on the first block of
\* the sbrk region
BoundaryFree ==
    /\ last.op = "free" /\ last.arg # 0
    /\ \/ get_block_from_payload(last.arg) = heap_start
       \/ gap_end # 0 /\ get_block_from_payload(last.arg) = gap_end

\* C18: when my_free is called on a block at a region boundary, coalesce
\* does not read the word immediately before the block, computes no previous
\* block, and the resulting free block keeps the freed block's address and
\* includes no bytes before it.
C18_BoundaryPrevUntouched ==
    BoundaryFree =>
        /\ status = "running"
        /\ get_block_from_payload(last.arg) - WORD \notin rd
        /\ \A x \in last.merged : x > get_block_from_payload(last.arg)
        /\ last.freed = get_block_from_payload(last.arg)

\* C19: between calls, a small block of the walkable heap is reachable from
\* one of the six list heads if and only if its used bit is clear: no used
\* block is linked in a list and no free block is missing from the lists.
C19_ListedIffFree ==
    \A b \in WalkBlocks : (b \in ListedBlocks) <=> ~is_used(Cur, b)

RECURSIVE ListSeqFrom(_, _)
\* the blocks met from b through next_free, in order
ListSeqFrom(b, fuel) ==
    IF b = 0 \/ fuel = 0 THEN <<>>
    ELSE <<b>> \o ListSeqFrom(Peek(Cur, NextFreeAddr(b)), fuel - 1)

\* the number of times block b is met on list i
Occurrences(b, i) ==
    LET q == ListSeqFrom(segregatedLists[i], WalkFuel)
    IN  Cardinality({k \in DOMAIN q : q[k] = b})

\* C20: between calls, every free block appears in exactly one list, exactly
\* once, and that list is the one indexed by get_list_index of the block's
\* current total size.
C20_OneListBySize ==
    \A b \in WalkBlocks :
        ~is_used(Cur, b) =>
            \A i \in 0 .. NUM_LISTS - 1 :
                Occurrences(b, i) = IF i = get_list_index(get_size(Cur, b)) THEN 1 ELSE 0

\* my_malloc has just taken the non-contiguous branch of sbrk_allocation
NonContiguous == last'.op = "malloc" /\ last'.path = "gap" /\ status' = "running"

\* C21: across any sequence of heap growths the non-contiguous branch of
\* sbrk_allocation is taken at most once: a later growth finds the returned
\* address equal to heap_end or is rejected, so no second gap is created.
C21_OneGap == [][NonContiguous => gap_end = 0]_vars

\* slack = heap_end - heap_top before the growth became a free block of
\* exactly that size at the old heap_top, or was left alone when below 32
SlackStep ==
    IF heap_end - heap_top >= MinBlockSize
    THEN /\ heap_top \in ListedBlocks'
         /\ ~is_used(Cur', heap_top)
         /\ get_size(Cur', heap_top) = heap_end - heap_top
         /\ last'.rescued = heap_top
    ELSE /\ segregatedLists' = segregatedLists
         /\ blocks' = blocks \cup {brk}
         /\ wr' = {brk, brk + TotalSize(last'.arg) - WORD}
         /\ last'.rescued = 0

\* the block for the request is at the address sbrk returned
PlacedAtBreak ==
    /\ last'.ret = PayloadOf(brk)
    /\ is_used(Cur', brk) /\ get_size(Cur', brk) = TotalSize(last'.arg)
    /\ heap_top' = brk + TotalSize(last'.arg)
    /\ heap_end' = brk'
    /\ brk' > brk

\* the first addresses of the ranges of foreign memory
ForeignStarts ==
    (IF brk0 > HeapBase + HEAP_TOTAL_SIZE THEN {HeapBase + HEAP_TOTAL_SIZE} ELSE {})
        \cup libc

\* the last non-contiguous growth left a slack too small for a block
SlackLost == gap_end # 0 /\ static_top \notin ForeignStarts

\* the end of that slack: the heap_end of before the growth
SlackEnd ==
    CHOOSE p \in ForeignStarts :
        p >= static_top /\ \A q \in ForeignStarts : q >= static_top => p <= q

\* the bytes of a lost slack lie in no block, so in no payload handed out
LostSlackUnused ==
    SlackLost =>
        \A b \in blocks \cup {get_block_from_payload(e.p) : e \in SmallLive} :
            b + get_size(Cur, b) <= static_top \/ b >= SlackEnd

\* C22: on a non-contiguous growth with slack = heap_end - heap_top, a slack
\* of at least 32 bytes is afterwards a free block of exactly that size at
\* the old heap_top, in the index; a smaller slack creates no block and its
\* bytes are never afterwards part of a block or handed to a caller; the
\* block for the request lies at the address sbrk returned, heap_top is that
\* address plus the block size and heap_end that address plus the grown size.
C22_SlackAtGrowth ==
    /\ [][NonContiguous => SlackStep /\ PlacedAtBreak]_vars
    /\ []LostSlackUnused

\* sbrk_size of sbrk_allocation: the request, one page at least, rounded up to pages
SbrkSize(total_size) ==
    PageRound(IF total_size < get_page_size THEN get_page_size ELSE total_size)

\* a my_malloc that grew the heap in place: sbrk returned exactly heap_end
Contiguous == last'.op = "malloc" /\ last'.path = "grow" /\ status' = "running"

\* the else branch of step 3 and the placement that follows it
GrownInPlace ==
    /\ brk = heap_end
    /\ heap_end' = heap_end + SbrkSize(TotalSize(last'.arg))
    /\ brk' = heap_end'
    /\ segregatedLists' = segregatedLists
    /\ blocks' = blocks \cup {heap_top}
    /\ wr' = {heap_top, heap_top + TotalSize(last'.arg) - WORD}
    /\ last'.ret = PayloadOf(heap_top)
    /\ is_used(Cur', heap_top)
    /\ get_size(Cur', heap_top) = TotalSize(last'.arg)
    /\ heap_top' = heap_top + TotalSize(last'.arg)
    /\ heap_top' <= heap_end'

\* C23: on a contiguous growth heap_end advances by the grown size, no free
\* block is created and no list changes (the call writes the header and the
\* footer of the requested block only), the requested block is carved at the
\* old heap_top, and afterwards heap_top = old heap_top + total_size <= heap_end
C23_ContiguousGrowth == [][Contiguous => GrownInPlace]_vars

\* a contiguous growth whose block starts in the slack of the old region and
\* ends in the new area
C23_Witness ==
    /\ last.op = "malloc" /\ last.path = "grow" /\ status = "running"
    /\ last.top0 < last.end0
    /\ heap_top > last.end0
    /\ heap_end > last.end0

\* heap_start <= heap_top <= heap_end
PointersOrdered == heap_start <= heap_top /\ heap_top <= heap_end

\* every block of the region being carved ends at or before heap_top
BlocksBelowTop ==
    \A b \in blocks : b >= RegionStart(heap_top) => b + get_size(Cur, b) <= heap_top

\* C24: in every reachable state heap_start <= heap_top <= heap_end, and
\* every block of the region currently being carved ends at or before heap_top
C24_Wavefront == status = "running" => PointersOrdered /\ BlocksBelowTop

\* the total sizes the host's small requests lead to
FitTotals == {TotalSize(size) : size \in SmallSizes}

RECURSIVE ScanOrder(_)
\* the blocks of lists i, i+1, ..., NUM_LISTS-1, each list from head to tail
ScanOrder(i) ==
    IF i >= NUM_LISTS THEN <<>>
    ELSE ListSeqFrom(segregatedLists[i], WalkFuel) \o ScanOrder(i + 1)

\* the first block of q whose size is at least total (0 = none)
FirstOf(q, total) ==
    IF \E k \in DOMAIN q : get_size(Cur, q[k]) >= total
    THEN q[CHOOSE k \in DOMAIN q :
               /\ get_size(Cur, q[k]) >= total
               /\ \A j \in 1 .. k - 1 : get_size(Cur, q[j]) < total]
    ELSE 0

\* first_fit(total) ends, with the first fitting block of its scan order
FirstInOrder(total) ==
    /\ ~first_fit(Cur, total).m.hang
    /\ ~first_fit(Cur, total).m.fault
    /\ first_fit(Cur, total).blk = FirstOf(ScanOrder(get_list_index(total)), total)

\* first_fit(total) answers null exactly when no free block on a list is large enough
NullIffNoFit(total) ==
    first_fit(Cur, total).blk = 0
        <=> ~\E b \in ListedBlocks : ~is_used(Cur, b) /\ get_size(Cur, b) >= total

\* C25: first_fit(total) returns the first block of size >= total met when
\* the lists are scanned in the order bucket(total), ..., 5, each from head
\* to tail, and it returns null exactly when no free block of the index has
\* size >= total
C25_FirstFit ==
    status = "running" => \A total \in FitTotals : FirstInOrder(total) /\ NullIffNoFit(total)

\* some free block on a list has size >= TotalSize(size)
FitExists(size) ==
    \E b \in ListedBlocks : ~is_used(Cur, b) /\ get_size(Cur, b) >= TotalSize(size)

\* a my_malloc below the mmap threshold has returned
SmallMalloc == MallocStep /\ align(last'.arg) < MMAP_THRESHOLD

\* heap_top moves and sbrk is called only when my_malloc has to
TopMovesOnNoFit ==
    /\ heap_top' # heap_top => ~FitExists(last'.arg)
    /\ last'.sys = "sbrk" =>
          ~FitExists(last'.arg) /\ heap_top + TotalSize(last'.arg) > heap_end
    /\ FitExists(last'.arg) => heap_top' = heap_top /\ heap_end' = heap_end

\* C26: a small my_malloc advances heap_top only when no free block of size
\* >= total is on any list, and calls sbrk only when in addition heap_top +
\* total > heap_end; when some free block of size >= total is on a list,
\* heap_top and heap_end are unchanged by the call
C26_TopOnlyOnNoFit == [][SmallMalloc => TopMovesOnNoFit]_vars

\* a growth by sbrk while the index held free blocks, all of them too small
C26_Witness ==
    /\ status = "running" /\ last.op = "malloc" /\ last.sys = "sbrk" /\ last.ret # 0
    /\ ~last.empty0
    /\ heap_top > last.top0
    /\ prev1.op = "malloc" /\ prev1.path = "fit"

\* a my_malloc that was served from a list has returned: split_block has run
\* on the block of the returned pointer
FitStep == MallocStep /\ last'.path = "fit"

\* the two outcomes of split_block(b, need) on a block of size size0; the new
\* block is in the index as the head of the list of its size
SplitOutcome(b, need, size0) ==
    IF size0 >= need + MinBlockSize
    THEN /\ get_size(Cur', b) = need
         /\ ~is_used(Cur', b + need)
         /\ get_size(Cur', b + need) = size0 - need
         /\ Peek(Cur', get_footer(Cur', b + need)) = Peek(Cur', b + need)
         /\ segregatedLists'[get_list_index(size0 - need)] = b + need
         /\ get_size(Cur', b) + get_size(Cur', b + need) = size0
         /\ blocks' = blocks \cup {b, b + need}
         /\ last'.split = b + need
    ELSE /\ get_size(Cur', b) = size0
         /\ blocks' = blocks
         /\ segregatedLists' = remove_from_free_list(Cur, b).lists
         /\ last'.split = 0

CoalesceStep == last'.op = "free" /\ last'.path = "free" /\ status' = "running"

\* the physical neighbours of block b inside its region, before the call
NextOf(b) == b + get_size(Cur, b)
NextIsFree(b) == NextOf(b) < RegionEnd(b) /\ ~is_used(Cur, NextOf(b))
PrevsOf(b) ==
    {q \in blocks : q # b /\ RegionStart(q) = RegionStart(b) /\ q + get_size(Cur, q) = b}
PrevIsFree(b) == \E q \in PrevsOf(b) : ~is_used(Cur, q)
PrevOf(b) == CHOOSE q \in PrevsOf(b) : ~is_used(Cur, q)

\* the four-case table: the block coalesce returns, its size, the blocks it absorbs
TableBlock(b) == IF PrevIsFree(b) THEN PrevOf(b) ELSE b
TableSize(b) ==
    get_size(Cur, b)
        + (IF NextIsFree(b) THEN get_size(Cur, NextOf(b)) ELSE 0)
        + (IF PrevIsFree(b) THEN get_size(Cur, PrevOf(b)) ELSE 0)
TableMerged(b) ==
    (IF NextIsFree(b) THEN {NextOf(b)} ELSE {})
        \cup (IF PrevIsFree(b) THEN {PrevOf(b)} ELSE {})

\* coalesce(b) did what the table says
FollowsTable(b) ==
    /\ last'.freed = TableBlock(b)
    /\ last'.merged = TableMerged(b)
    /\ get_size(Cur', TableBlock(b)) = TableSize(b)
    /\ ~is_used(Cur', TableBlock(b))
    /\ Peek(Cur', get_footer(Cur', TableBlock(b))) = Peek(Cur', TableBlock(b))
    /\ blocks' = (blocks \ (TableMerged(b) \cup {b})) \cup {TableBlock(b)}

\* the neighbours the last my_free absorbed are on no list
AbsorbedUnlisted ==
    status = "running" /\ last.op = "free" /\ last.path = "free"
        => \A n \in last.merged \ {last.freed} : n \notin ListedBlocks

\* C28: coalesce(b) follows the four-case table: it returns b or the free
\* previous block, with the sizes of the free neighbours added to the size of
\* b; each absorbed neighbour is off its list, the returned block is free
\* with header and footer equal, and the sizes of the blocks of the region
\* add up to what they did before
C28_FourCases ==
    /\ [][CoalesceStep => FollowsTable(get_block_from_payload(last'.arg))]_vars
    /\ []AbsorbedUnlisted

\* no header of the walkable heap has the mmap flag, and a pointer the host
\* holds has it exactly when it points into a mapping
FlagOnlyInMappings ==
    status = "running" =>
        /\ \A b \in WalkBlocks \cup blocks : ~is_mmap(Cur, b)
        /\ \A e \in live : is_mmap(Cur, get_block_from_payload(e.p)) <=> InMap(Cur, e.p)

\* my_free of a pointer has returned
FreeStep == last'.op = "free" /\ last'.arg # 0 /\ status' = "running"

\* my_free took the munmap path for a pointer into a mapping, and the
\* coalescing path for every other pointer
DispatchBySource ==
    IF InMap(Cur, last'.arg)
    THEN last'.path = "munmap" /\ last'.unmapped # <<>> /\ last'.freed = 0
    ELSE last'.path = "free" /\ last'.unmapped = <<>>
             /\ last'.freed # 0

\* C29: in every reachable state the large flag (bit 1 of the header) is set
\* only in headers written by the mmap path: no block of the walkable heap
\* has it, so my_free sends a small block to coalesce and a large block to
\* munmap, never the other way round
C29_LargeFlag ==
    /\ []FlagOnlyInMappings
    /\ [][FreeStep => DispatchBySource]_vars

\* a large block went to munmap right after a small block went to coalesce,
\* while the host holds a block of each kind
C29_Witness ==
    /\ status = "running"
    /\ last.op = "free" /\ last.path = "munmap"
    /\ prev1.op = "free" /\ prev1.path = "free"
    /\ SmallLive # {} /\ live \ SmallLive # {}

\* x rounded up to a multiple of the page size
PageCeil(x) == IF x % PAGE_SIZE = 0 THEN x ELSE x + PAGE_SIZE - (x % PAGE_SIZE)

\* a large my_malloc that the kernel granted has returned
LargeGranted == last'.op = "malloc" /\ last'.path = "mmap" /\ status' = "running"

\* the mapping of the returned block has length len, and so says its header
MappedLength(len) ==
    /\ get_block_from_payload(last'.ret) \in DOMAIN maps'
    /\ maps'[get_block_from_payload(last'.ret)] = len
    /\ get_size(Cur', get_block_from_payload(last'.ret)) = len

GrowthStep ==
    /\ last'.op = "malloc" /\ last'.sys = "sbrk" /\ last'.kernel = "granted"
    /\ status' = "running"

\* the increment of the break is whole pages, one at least, and no less than
\* the block; the block lies below the new heap_top, which is below the new heap_end
GrowthAmount ==
    /\ (brk' - brk) % PAGE_SIZE = 0
    /\ brk' - brk >= PAGE_SIZE
    /\ brk' - brk >= TotalSize(last'.arg)
    /\ get_block_from_payload(last'.ret) + TotalSize(last'.arg) = heap_top'
    /\ heap_top' <= heap_end'
    /\ heap_end' = brk'

\* C31: the amount by which heap growth advances the program break is a
\* multiple of the page size, at least one page and at least the total block
\* size requested, so the new block ends at the new heap_top, at or below
\* the new heap_end
C31_GrowthAmount == [][GrowthStep => GrowthAmount]_vars

\* a growth of more than one page, for a block larger than a page
C31_Witness ==
    /\ status = "running" /\ last.op = "malloc" /\ last.sys = "sbrk" /\ last.ret # 0
    /\ TotalSize(last.arg) > PAGE_SIZE
    /\ TotalSize(last.arg) % PAGE_SIZE # 0
    /\ heap_end - heap_top < PAGE_SIZE
    /\ heap_end = brk

RECURSIVE NodesFrom(_, _)
\* the nodes met from node n through next, in order
NodesFrom(n, fuel) ==
    IF n = 0 \/ fuel = 0 \/ n \notin DOMAIN nodes THEN <<>>
    ELSE <<n>> \o NodesFrom(nodes[n].next, fuel - 1)

\* the registry as a walk from the head sees it
RegistryWalk == NodesFrom(mmap_tracked_head, MaxScan)

\* the large blocks the host holds
LargeLive == live \ SmallLive

\* the pointer the host holds for the block of the i-th node of the walk
HolderOf(i) ==
    CHOOSE e \in LargeLive : get_block_from_payload(e.p) = nodes[RegistryWalk[i]].block

\* one record per live large block and no other, in allocation order
OneRecordEach ==
    /\ Len(RegistryWalk) = Cardinality(LargeLive)
    /\ DOMAIN nodes = Range(RegistryWalk)
    /\ tracked = [i \in DOMAIN RegistryWalk |-> nodes[RegistryWalk[i]].block]
    /\ \A i \in DOMAIN RegistryWalk :
          \E e \in LargeLive : get_block_from_payload(e.p) = nodes[RegistryWalk[i]].block
    /\ \A i, j \in DOMAIN RegistryWalk : i < j => HolderOf(i).id < HolderOf(j).id

\* head and tail are null together, exactly when no large block is live
NullTogether ==
    /\ mmap_tracked_head = 0 <=> LargeLive = {}
    /\ mmap_tracked_tail = 0 <=> LargeLive = {}

\* prev and next agree along the list, from the head to the tail
LinksAgree ==
    /\ \A n \in DOMAIN nodes :
          /\ nodes[n].next # 0 =>
                nodes[n].next \in DOMAIN nodes /\ nodes[nodes[n].next].prev = n
          /\ nodes[n].prev # 0 =>
                nodes[n].prev \in DOMAIN nodes /\ nodes[nodes[n].prev].next = n
          /\ nodes[n].prev = 0 <=> n = mmap_tracked_head
          /\ nodes[n].next = 0 <=> n = mmap_tracked_tail
    /\ mmap_tracked_head # 0 => mmap_tracked_head \in DOMAIN nodes
    /\ mmap_tracked_tail # 0 => mmap_tracked_tail \in DOMAIN nodes

\* C32: in every reachable state the registry holds exactly one record per
\* live large block and none for freed ones, in allocation order; head and
\* tail are both null exactly when no large block is live; and the prev and
\* next links agree, also after the removal of a head, middle or tail record
C32_Registry == status = "running" => OneRecordEach /\ NullTogether /\ LinksAgree

\* the middle one of three records has just been removed: the nodes were
\* allocated as 1, 2, 3 by the first three calls, and the fourth freed node 2
C32_Witness ==
    /\ status = "running" /\ last.op = "free" /\ last.path = "munmap"
    /\ nops = 4
    /\ DOMAIN nodes = {1, 3}
    /\ mmap_tracked_head = 1 /\ mmap_tracked_tail = 3
    /\ nodes[1].next = 3 /\ nodes[3].prev = 1
    /\ Cardinality(LargeLive) = 2

\* heap_top, heap_end and the break do not go down
NoRetreat == heap_top' >= heap_top /\ heap_end' >= heap_end /\ brk' >= brk

\* my_free leaves heap_top, heap_end and the break where they are
FreeKeepsTop ==
    last'.op = "free" => heap_top' = heap_top /\ heap_end' = heap_end /\ brk' = brk

\* C33: heap_top and heap_end never decrease: my_free never lowers heap_top
\* (a freed block that ends at heap_top stays a free-list block), and no
\* operation moves the break down
C33_NeverDecrease == [][NoRetreat /\ FreeKeepsTop]_vars

\* a block that ends at heap_top has just been freed: it is on a list and
\* heap_top is where it was
C33_Witness ==
    /\ status = "running" /\ last.op = "free" /\ last.path = "free"
    /\ last.freed + get_size(Cur, last.freed) = heap_top
    /\ heap_top = last.top0
    /\ last.freed \in ListedBlocks
    /\ ~is_used(Cur, last.freed)

\* C34: every call remove_from_free_list(b) made by my_malloc or coalesce is
\* made on a block that is at that moment on the list get_list_index(size(b)),
\* with b->prev_free null exactly when b is that list's head
C34_RemoveInPlace ==
    status = "running" /\ last.op \in {"malloc", "free"} => last.stray = {}

\* the block after b lies in b's region and both are free
FreePair(b) ==
    /\ ~is_used(Cur, b)
    /\ get_size(Cur, b) > 0
    /\ NextOf(b) < RegionEnd(b)
    /\ ~is_used(Cur, NextOf(b))

\* C35: between calls no two physically adjacent blocks of the same region
\* are both free, the free block that heap growth builds from the slack at
\* the old heap_top included
C35_NoAdjacentFree == status = "running" => \A b \in WalkBlocks : ~FreePair(b)

\* the members of list i, from its head
ListSeq(i) == ListSeqFrom(segregatedLists[i], WalkFuel)

\* the walk of list i ends at a null link and meets no block twice
Acyclic(i) ==
    /\ Len(ListSeq(i)) < WalkFuel
    /\ \A j, k \in 1 .. Len(ListSeq(i)) : ListSeq(i)[j] = ListSeq(i)[k] => j = k

\* the head of list i has no predecessor
HeadHasNoPrev(i) ==
    segregatedLists[i] # 0 => Peek(Cur, PrevFreeAddr(segregatedLists[i])) = 0

\* the successor of every member of list i points back to it
BackLinks(i) ==
    \A k \in 1 .. Len(ListSeq(i)) - 1 :
        Peek(Cur, PrevFreeAddr(ListSeq(i)[k + 1])) = ListSeq(i)[k]

\* no block is a member of two lists
OnOneList ==
    \A i, j \in 0 .. NUM_LISTS - 1 :
        i # j => ListFrom(segregatedLists[i], WalkFuel)
                     \cap ListFrom(segregatedLists[j], WalkFuel) = {}

\* C36: between calls each of the six free lists is a well-formed
\* doubly-linked list: acyclic, the head without a predecessor, the successor
\* of every member pointing back to it, and no block on two lists or twice on
\* one list
C36_ListsWellFormed ==
    status = "running" =>
        /\ \A i \in 0 .. NUM_LISTS - 1 : Acyclic(i) /\ HeadHasNoPrev(i) /\ BackLinks(i)
        /\ OnOneList

RECURSIVE Lands(_, _, _)
\* repeatedly adding the block's size from b arrives exactly at end
Lands(b, end, fuel) ==
    IF b = end THEN TRUE
    ELSE IF b > end \/ fuel = 0 \/ get_size(Cur, b) = 0 THEN FALSE
    ELSE Lands(b + get_size(Cur, b), end, fuel - 1)

\* the small blocks set up between lo and hi
BlocksIn(lo, hi) == {b \in blocks : lo <= b /\ b < hi}

\* the blocks between lo and hi follow one another without overlap or hole:
\* the walk meets exactly the blocks set up there and ends at hi
Tiled(lo, hi) ==
    /\ Lands(lo, hi, WalkFuel)
    /\ WalkFrom(lo, hi, WalkFuel) = BlocksIn(lo, hi)

\* C37: between calls the small blocks tile each owned region exactly: the
\* walk by sizes from the region's first block visits only block headers and
\* lands on the region's end (heap_top for the region being carved, the end
\* of the rescued slack or the heap_top of before the growth for the
\* abandoned static region)
C37_Tiling ==
    status = "running" =>
        /\ Tiled(heap_start, StaticEnd)
        /\ gap_end # 0 => Tiled(gap_end, heap_top)

\* my_malloc has returned a block of the heap
ReturnedSmall ==
    /\ status = "running" /\ last.op = "malloc" /\ last.ret # 0
    /\ last.path \in {"fit", "carve", "grow", "gap"}

\* the size in the header of the block handed out
GrantedSize == get_size(Cur, get_block_from_payload(last.ret))

\* the block was reused whole: found by first_fit and not split
ReusedWhole == last.path = "fit" /\ last.split = 0

RegistryEnds == Len(RegistryWalk) < MaxScan

\* C39: every my_malloc and my_free call terminates: the scan of first_fit
\* ends at a null link and so does the walk of the registry by
\* mmap_track_remove
C39_Terminates == status # "hang" /\ RegistryEnds

\* x & ~3UL, the mask of get_size
SizeBitsOf(x) == (x \div 4) * 4

\* the size a header was asked to hold is a multiple of 8 and is what both
\* masks read back from the word written
ReadsBack(p) ==
    /\ p.size % WORD = 0
    /\ SizeBitsOf(p.word) = p.size
    /\ SizeMask(p.word) = p.size

\* C40: every size written into a block header, by set_header, setup_block
\* or the large path, is a multiple of 8, and the size read back by get_size
\* (mask ~3) and by get_prev_physical_block (mask ~7) is the size written
C40_SizesAligned == status = "running" => \A p \in last.hdr : ReadsBack(p)
====
